---- MODULE Spec2Model ----
(***************************************************************************)
(* A model of src/main.py: the /chat handler, its Redis-backed daily rate  *)
(* limit (check_rate_limit) and the Google Books search with filtering and *)
(* ranking (search_google_books_for_quote).                                *)
(*                                                                         *)
(* Python strings are sequences of code points, so that lower(), strip(),  *)
(* replace() and the lexicographic order of sort keys are computed and not *)
(* assumed.  Python's None is the tuple <<-1>> and a key missing from a    *)
(* JSON object is <<-2>>; no string contains a negative code point.        *)
(***************************************************************************)
EXTENDS Integers, Sequences, FiniteSets, TLC

(***************************************************************************)
(* Bounds of the model.                                                    *)
(***************************************************************************)
TicksPerDay == 2
MaxNow == 2
MaxReqs == 2
MaxItems == 3

(***************************************************************************)
(* Program constants.                                                      *)
(***************************************************************************)
DAILY_LIMIT == 10

None == <<-1>>
Missing == <<-2>>

(***************************************************************************)
(* String literals of the source, as code points.                          *)
(***************************************************************************)
EmptyStr == <<>>
Ellipsis == <<46, 46, 46>>
UnknownTitle == <<85, 110, 107, 110, 111, 119, 110, 32, 84, 105, 116, 108, 101>>
DefaultLink == <<104, 116, 116, 112, 115, 58, 47, 47, 98, 111, 111, 107, 115, 46,
                 103, 111, 111, 103, 108, 101, 46, 99, 111, 109, 47>>
UnknownDate == <<85, 110, 107, 110, 111, 119, 110>>
NoResultsQuote == <<78, 111, 32, 112, 114, 101, 118, 105, 101, 119, 97, 98, 108, 101,
                    32, 98, 111, 111, 107, 115, 32, 119, 105, 116, 104, 32, 115, 110,
                    105, 112, 112, 101, 116, 115, 32, 102, 111, 117, 110, 100, 46>>

(***************************************************************************)
(* Strings used as inputs.                                                 *)
(***************************************************************************)
Zebra == <<90, 101, 98, 114, 97>>
apple == <<97, 112, 112, 108, 101>>
SomeLink == <<104, 116, 116, 112>>
SomeDate == <<49, 57, 56, 52>>

(***************************************************************************)
(* str methods.                                                            *)
(***************************************************************************)
IsSpace(c) == c \in {9, 10, 11, 12, 13, 28, 29, 30, 31, 32}

LowerChar(c) == IF c >= 65 /\ c <= 90 THEN c + 32 ELSE c

Lower(s) == [i \in 1..Len(s) |-> LowerChar(s[i])]

RECURSIVE LStrip(_)
LStrip(s) == IF s # <<>> /\ IsSpace(Head(s)) THEN LStrip(Tail(s)) ELSE s

RECURSIVE RStrip(_)
RStrip(s) ==
  IF s # <<>> /\ IsSpace(s[Len(s)]) THEN RStrip(SubSeq(s, 1, Len(s) - 1)) ELSE s

Strip(s) == RStrip(LStrip(s))

\* s.replace("...", ""): the non-overlapping occurrences, left to right.
RECURSIVE ReplaceEllipsis(_)
ReplaceEllipsis(s) ==
  IF Len(s) < 3 THEN s
  ELSE IF SubSeq(s, 1, 3) = Ellipsis THEN ReplaceEllipsis(SubSeq(s, 4, Len(s)))
  ELSE <<Head(s)>> \o ReplaceEllipsis(Tail(s))

\* x or "": None and the empty string are the falsy values a string field takes.
OrEmpty(x) == IF x = None \/ x = EmptyStr THEN EmptyStr ELSE x

\* dict.get(key, default): the default only when the key is missing.
GetDefault(x, default) == IF x = Missing THEN default ELSE x

\* dict.get(key): None when the key is missing.
Get(x) == GetDefault(x, None)

\* Python's order on str: lexicographic by code point.
RECURSIVE StrLess(_, _)
StrLess(a, b) ==
  IF b = <<>> THEN FALSE
  ELSE IF a = <<>> THEN TRUE
  ELSE IF Head(a) # Head(b) THEN Head(a) < Head(b)
  ELSE StrLess(Tail(a), Tail(b))

(***************************************************************************)
(* search_google_books_for_quote                                           *)
(***************************************************************************)
AllowedViewability == {"PARTIAL", "ALL_PAGES", "FULL", "SAMPLE"}

\* quote = (search_info.get("textSnippet") or "").replace("...", "").strip()
Quote(volume) == Strip(ReplaceEllipsis(OrEmpty(Get(volume.textSnippet))))

Book(volume) ==
  [title |-> GetDefault(volume.title, UnknownTitle),
   quote |-> Quote(volume),
   link |-> GetDefault(volume.previewLink, DefaultLink),
   published_date |-> GetDefault(volume.publishedDate, UnknownDate)]

\* A filter that forgets the test of the quote.
KeepsViewable(volume) == volume.viewability \in AllowedViewability

\* The two `continue` tests of the loop body.
Keeps(volume) ==
  /\ volume.viewability \in AllowedViewability
  /\ Quote(volume) # EmptyStr

\* The for loop over data["items"], appending to books.
RECURSIVE FilterItems(_)
FilterItems(items) ==
  IF items = <<>> THEN <<>>
  ELSE IF Keeps(Head(items)) THEN <<Book(Head(items))>> \o FilterItems(Tail(items))
  ELSE FilterItems(Tail(items))

\* A sort key that keeps the case.
SortKeyCased(b) == OrEmpty(b.title)

\* key=lambda b: (b["title"] or "").lower()
SortKey(b) == Lower(OrEmpty(b.title))

\* list.sort is stable: a record goes after every record whose key is not greater.
RECURSIVE InsertSorted(_, _)
InsertSorted(b, sorted) ==
  IF sorted = <<>> THEN <<b>>
  ELSE IF StrLess(SortKey(b), SortKey(Head(sorted))) THEN <<b>> \o sorted
  ELSE <<Head(sorted)>> \o InsertSorted(b, Tail(sorted))

RECURSIVE SortBooks(_)
SortBooks(books) ==
  IF books = <<>> THEN <<>>
  ELSE InsertSorted(books[Len(books)], SortBooks(SubSeq(books, 1, Len(books) - 1)))

Placeholder ==
  [title |-> None, quote |-> NoResultsQuote, link |-> None, published_date |-> None]

\* The outcome of a call: the list returned, or an exception raised.
Returned(books) == [raised |-> FALSE, books |-> books]
Raised == [raised |-> TRUE, books |-> <<>>]

\* response: status_code, whether the body parses as JSON (response.json()
\* raises otherwise), whether the parsed object has "items", and the items.
search_google_books_for_quote(response) ==
  IF ~response.json THEN Raised
  ELSE LET books == IF response.status_code = 200 /\ response.hasItems
                    THEN FilterItems(response.items)
                    ELSE <<>>
       IN IF books = <<>> THEN Returned(<<Placeholder>>)
          ELSE Returned(SortBooks(books))

(***************************************************************************)
(* State.                                                                  *)
(*   now       the clock, in ticks; a calendar day is TicksPerDay ticks    *)
(*   store     the Redis keys rate_limit:{ip}:{today}                      *)
(*   req       each worker's request: its position in chat() and locals    *)
(*   nreq      per key, how many requests computed that key (history)      *)
(*   nadmit    per key, how many check_rate_limit calls returned True      *)
(*   received  the requests received in this run                           *)
(*   response  the catalog response given to the search function alone     *)
(*   result    what the search function made of it                         *)
(***************************************************************************)
VARIABLES now, store, req, nreq, nadmit, received, response, result

vars == <<now, store, req, nreq, nadmit, received, response, result>>

\* Two request handlers: the least number whose steps interleave.
Workers == {"w1", "w2"}
IPs == {"ip1", "ip2"}
Day(t) == t \div TicksPerDay
Days == 0..Day(MaxNow)
Keys == IPs \X Days

\* ex=86400: twenty-four hours, one calendar day's worth of ticks.
TTL == TicksPerDay

NoRecord == [exists |-> FALSE, count |-> 0, hasTTL |-> FALSE, expireAt |-> 0]

\* The local variable count: None, or the value read.
NoneCount == [isNone |-> TRUE, value |-> 0]
SomeCount(n) == [isNone |-> FALSE, value |-> n]

\* The JSON bodies posted to /chat: no message, a blank one, a real one.
Messages == {Missing, <<32, 32>>, <<32, 97>>}

Idle ==
  [pc |-> "idle", ip |-> "ip1", today |-> 0, count |-> NoneCount,
   message |-> Missing, admitted |-> FALSE,
   completion |-> FALSE, catalog |-> FALSE, status |-> 0, books |-> <<>>]

\* A key that leaves the date out.
KeyNoDate(p) == <<req[p].ip, 0>>

\* key = f"rate_limit:{ip}:{today}"
Key(p) == <<req[p].ip, req[p].today>>

(***************************************************************************)
(* The Redis commands, as functions of the store.                          *)
(***************************************************************************)
\* GET key
RedisGet(s, k) == IF s[k].exists THEN SomeCount(s[k].count) ELSE NoneCount

\* SET key 1 EX 86400
RedisSetEx(s, k, t) ==
  [s EXCEPT ![k] = [exists |-> TRUE, count |-> 1, hasTTL |-> TRUE,
                    expireAt |-> t + TTL]]

\* INCR key: a key that does not exist is created at 0 first, with no expiry.
RedisIncr(s, k) ==
  [s EXCEPT ![k] = IF s[k].exists
                   THEN [s[k] EXCEPT !.count = @ + 1]
                   ELSE [exists |-> TRUE, count |-> 1, hasTTL |-> FALSE,
                         expireAt |-> 0]]

\* Redis drops a key once its expiry time is reached.
Expire(s, t) ==
  [k \in Keys |-> IF s[k].exists /\ s[k].hasTTL /\ s[k].expireAt <= t
                  THEN NoRecord ELSE s[k]]

\* A catalog response: the HTTP status, whether the body parses as JSON,
\* whether the parsed object has "items", and the items.
NoItems == [status_code |-> 200, json |-> TRUE, hasItems |-> FALSE, items |-> <<>>]
NotJson(code) == [status_code |-> code, json |-> FALSE, hasItems |-> FALSE, items |-> <<>>]
WithItems(code, items) ==
  [status_code |-> code, json |-> TRUE, hasItems |-> TRUE, items |-> items]

\* The search function has not been applied yet.
NotCalled == [called |-> FALSE, out |-> Raised]

\* The record left by n requests handled one after the other at tick 0.
After(n) ==
  IF n = 0 THEN NoRecord
  ELSE [exists |-> TRUE, count |-> n, hasTTL |-> TRUE, expireAt |-> TTL]

\* The service starts with no record.
InitSeq ==
  /\ now = 0
  /\ store = [k \in Keys |-> NoRecord]
  /\ req = [p \in Workers |-> Idle]
  /\ nreq = [k \in Keys |-> 0]
  /\ nadmit = [k \in Keys |-> 0]
  /\ received = 0
  /\ response = NoItems
  /\ result = NotCalled

\* The counts from which the requests of one run can reach the limit.
Preloads == {0} \cup {n \in 1..DAILY_LIMIT : n + MaxReqs >= DAILY_LIMIT}

\* The service as n admitted requests of ip1 at tick 0 leave it.
Init ==
  /\ now = 0
  /\ \E n \in Preloads :
       /\ store = [k \in Keys |-> IF k = <<"ip1", 0>> THEN After(n) ELSE NoRecord]
       /\ nreq = [k \in Keys |-> IF k = <<"ip1", 0>> THEN n ELSE 0]
       /\ nadmit = [k \in Keys |-> IF k = <<"ip1", 0>> THEN n ELSE 0]
  /\ req = [p \in Workers |-> Idle]
  /\ received = 0
  /\ response = NoItems
  /\ result = NotCalled

(***************************************************************************)
(* chat(), one action per step that another request can interleave with.   *)
(***************************************************************************)
\* A request arrives: ip = get_client_ip(), and check_rate_limit(ip) is
\* entered, which reads the date and builds the key.
ReceiveUpTo(p, n) ==
  /\ req[p].pc = "idle"
  /\ received < n
  /\ received' = received + 1
  /\ \E i \in IPs, m \in Messages :
       LET k == <<i, Day(now)>> IN
       /\ req' = [req EXCEPT ![p] = [Idle EXCEPT !.pc = "get", !.ip = i,
                                       !.today = Day(now), !.message = m]]
       /\ nreq' = [nreq EXCEPT ![k] = @ + 1]
  /\ UNCHANGED <<now, store, nadmit, response, result>>

Receive(p) == ReceiveUpTo(p, MaxReqs)

\* count = redis.get(key)
GetCount(p) ==
  /\ req[p].pc = "get"
  /\ req' = [req EXCEPT ![p].count = RedisGet(store, Key(p)), ![p].pc = "check"]
  /\ UNCHANGED <<now, store, nreq, nadmit, received, response, result>>

\* if count is None: redis.set(key, 1, ex=86400); return True
SetFirst(p) ==
  /\ req[p].pc = "check"
  /\ req[p].count.isNone
  /\ store' = RedisSetEx(store, Key(p), now)
  /\ req' = [req EXCEPT ![p].pc = "validate", ![p].admitted = TRUE]
  /\ nadmit' = [nadmit EXCEPT ![Key(p)] = @ + 1]
  /\ UNCHANGED <<now, nreq, received, response, result>>

\* A limit test that lets the count reach DAILY_LIMIT + 1.
OverLimitStrict(count) == count.value > DAILY_LIMIT

\* int(count) >= DAILY_LIMIT
OverLimit(count) == count.value >= DAILY_LIMIT

\* A rejection that counts the rejected request all the same.
RejectCounting(p) ==
  /\ req[p].pc = "check"
  /\ ~req[p].count.isNone
  /\ OverLimit(req[p].count)
  /\ store' = RedisIncr(store, <<req[p].ip, req[p].today>>)
  /\ req' = [req EXCEPT ![p].pc = "done", ![p].status = 429]
  /\ UNCHANGED <<now, nreq, nadmit, received, response, result>>

\* if int(count) >= DAILY_LIMIT: return False, and chat() answers 429
Reject(p) ==
  /\ req[p].pc = "check"
  /\ ~req[p].count.isNone
  /\ OverLimit(req[p].count)
  /\ req' = [req EXCEPT ![p].pc = "done", ![p].status = 429]
  /\ UNCHANGED <<now, store, nreq, nadmit, received, response, result>>

\* An increment that tests the limit again on the record as it is now.
IncrGuarded(p) ==
  /\ req[p].pc = "check"
  /\ ~req[p].count.isNone
  /\ ~OverLimit(req[p].count)
  /\ IF store[<<req[p].ip, req[p].today>>].count >= DAILY_LIMIT
     THEN /\ req' = [req EXCEPT ![p].pc = "done", ![p].status = 429]
          /\ UNCHANGED <<store, nadmit>>
     ELSE /\ store' = RedisIncr(store, <<req[p].ip, req[p].today>>)
          /\ req' = [req EXCEPT ![p].pc = "validate", ![p].admitted = TRUE]
          /\ nadmit' = [nadmit EXCEPT ![<<req[p].ip, req[p].today>>] = @ + 1]
  /\ UNCHANGED <<now, nreq, received, response, result>>

\* redis.incr(key); return True
Incr(p) ==
  /\ req[p].pc = "check"
  /\ ~req[p].count.isNone
  /\ ~OverLimit(req[p].count)
  /\ store' = RedisIncr(store, Key(p))
  /\ req' = [req EXCEPT ![p].pc = "validate", ![p].admitted = TRUE]
  /\ nadmit' = [nadmit EXCEPT ![Key(p)] = @ + 1]
  /\ UNCHANGED <<now, nreq, received, response, result>>

\* The message taken as posted, not stripped.
MessageNoStrip(m) == OrEmpty(Get(m))

\* message = (data.get("message") or "").strip()
Message(m) == Strip(OrEmpty(Get(m)))

\* if not message: 400
Validate(p) ==
  /\ req[p].pc = "validate"
  /\ req' = IF Message(req[p].message) = EmptyStr
            THEN [req EXCEPT ![p].pc = "done", ![p].status = 400]
            ELSE [req EXCEPT ![p].pc = "complete"]
  /\ UNCHANGED <<now, store, nreq, nadmit, received, response, result>>

\* client.responses.create(...): returns, or raises and the request ends in 500
Complete(p) ==
  /\ req[p].pc = "complete"
  /\ \E ok \in BOOLEAN :
       req' = IF ok
              THEN [req EXCEPT ![p].pc = "search", ![p].completion = TRUE]
              ELSE [req EXCEPT ![p].pc = "done", ![p].completion = TRUE,
                               ![p].status = 500]
  /\ UNCHANGED <<now, store, nreq, nadmit, received, response, result>>

\* The catalog responses a request of chat() meets.
OneVolume ==
  [viewability |-> "FULL", textSnippet |-> <<97>>, title |-> apple,
   previewLink |-> SomeLink, publishedDate |-> SomeDate]

ChatResponses == {NotJson(503), NoItems, WithItems(200, <<OneVolume>>)}

\* books = search_google_books_for_quote(query); return jsonify(...)
Search(p) ==
  /\ req[p].pc = "search"
  /\ \E r \in ChatResponses :
       LET out == search_google_books_for_quote(r) IN
       req' = IF out.raised
              THEN [req EXCEPT ![p].pc = "done", ![p].catalog = TRUE,
                               ![p].status = 500]
              ELSE [req EXCEPT ![p].pc = "done", ![p].catalog = TRUE,
                               ![p].status = 200, ![p].books = out.books]
  /\ UNCHANGED <<now, store, nreq, nadmit, received, response, result>>

\* The response is sent and the worker takes the next request.
Respond(p) ==
  /\ req[p].pc = "done"
  /\ req' = [req EXCEPT ![p] = Idle]
  /\ UNCHANGED <<now, store, nreq, nadmit, received, response, result>>

\* Time passes; keys whose expiry is reached are gone.
Tick ==
  /\ now < MaxNow
  /\ now' = now + 1
  /\ store' = Expire(store, now + 1)
  /\ UNCHANGED <<req, nreq, nadmit, received, response, result>>

Next ==
  \/ Tick
  \/ \E p \in Workers :
       \/ Receive(p)
       \/ GetCount(p)
       \/ SetFirst(p)
       \/ Reject(p)
       \/ Incr(p)
       \/ Validate(p)
       \/ Complete(p)
       \/ Search(p)
       \/ Respond(p)

Spec == Init /\ [][Next]_vars

(***************************************************************************)
(* Requests handled one at a time: a request is received only when no      *)
(* other request is being handled.                                         *)
(***************************************************************************)
ReceiveAlone(p) ==
  /\ \A q \in Workers : req[q].pc = "idle"
  /\ ReceiveUpTo(p, DAILY_LIMIT + MaxReqs)

NextSeq ==
  \/ Tick
  \/ \E p \in Workers :
       \/ ReceiveAlone(p)
       \/ GetCount(p)
       \/ SetFirst(p)
       \/ Reject(p)
       \/ Incr(p)
       \/ Validate(p)
       \/ Complete(p)
       \/ Search(p)
       \/ Respond(p)

SpecSeq == InitSeq /\ [][NextSeq]_vars

(***************************************************************************)
(* The search function alone, applied to every catalog response of a       *)
(* bounded set.                                                            *)
(***************************************************************************)
NoViewability == "None"
Viewabilities == AllowedViewability \cup {"NONE", NoViewability}

\* Snippets: missing, "", " ... ", "...a..."
SnippetSamples == {Missing, EmptyStr, <<32, 46, 46, 46, 32>>, <<46, 46, 46, 97, 46, 46, 46>>}

\* Titles: missing, null, "", "Zebra", "apple"
TitleSamples == {Missing, None, EmptyStr, Zebra, apple}

Volume(v, s, t) ==
  [viewability |-> v, textSnippet |-> s, title |-> t,
   previewLink |-> IF t = Missing THEN Missing ELSE SomeLink,
   publishedDate |-> IF t = Missing THEN Missing ELSE SomeDate]

\* Every viewability with every snippet, and every title on a volume that is kept.
VolumeSet ==
  {Volume(v, s, apple) : v \in Viewabilities, s \in SnippetSamples \ {EmptyStr}}
    \cup {Volume("FULL", s, apple) : s \in {EmptyStr, None}}
    \cup {Volume("FULL", <<97>>, t) : t \in TitleSamples \ {apple}}

RECURSIVE SeqsUpTo(_, _)
SeqsUpTo(S, n) ==
  IF n = 0 THEN {<<>>}
  ELSE LET shorter == SeqsUpTo(S, n - 1)
       IN shorter \cup {Append(q, x) : q \in shorter, x \in S}

Responses ==
  {NoItems, NotJson(503), [NoItems EXCEPT !.status_code = 503]}
    \cup {WithItems(200, items) : items \in SeqsUpTo(VolumeSet, MaxItems)}
    \cup {WithItems(503, items) : items \in SeqsUpTo(VolumeSet, 1)}

InitBooks ==
  /\ now = 0
  /\ store = [k \in Keys |-> NoRecord]
  /\ req = [p \in Workers |-> Idle]
  /\ nreq = [k \in Keys |-> 0]
  /\ nadmit = [k \in Keys |-> 0]
  /\ received = 0
  /\ response \in Responses
  /\ result = NotCalled

\* books = search_google_books_for_quote(query), on the catalog's response.
SearchCall ==
  /\ ~result.called
  /\ result' = [called |-> TRUE, out |-> search_google_books_for_quote(response)]
  /\ UNCHANGED <<now, store, req, nreq, nadmit, received, response>>

NextBooks == SearchCall

SpecBooks == InitBooks /\ [][NextBooks]_vars

(***************************************************************************)
(* Properties of search_google_books_for_quote, under SpecBooks.           *)
(***************************************************************************)
\* The snippet with every "..." removed and the surrounding whitespace trimmed.
Trimmed(v) ==
  Strip(ReplaceEllipsis(IF v.textSnippet \in {Missing, None} THEN <<>>
                        ELSE v.textSnippet))

\* The condition the specification puts on a catalog item.
Qualifies(v) ==
  /\ v.viewability \in {"PARTIAL", "ALL_PAGES", "FULL", "SAMPLE"}
  /\ Trimmed(v) # <<>>

\* The items of the response that reach the loop.
ItemsSeen ==
  IF response.status_code = 200 /\ response.json /\ response.hasItems
  THEN response.items ELSE <<>>

NoSurvivor == \A i \in 1..Len(ItemsSeen) : ~Qualifies(ItemsSeen[i])

Times(x, q) == Cardinality({i \in 1..Len(q) : q[i] = x})

TitlesOf(books) == [i \in 1..Len(books) |-> books[i].title]

\* C7: the search never returns an empty sequence; on a non-200 status, on no
\* items and when no item survives the filter it returns exactly the one
\* placeholder record; otherwise every record has a non-empty quote and none
\* is the placeholder.
C7_PlaceholderOrQuotes ==
  result.called =>
    LET books == result.out.books IN
    /\ ~result.out.raised
    /\ books # <<>>
    /\ IF response.status_code # 200 \/ ~response.hasItems \/ NoSurvivor
       THEN books = <<Placeholder>>
       ELSE \A i \in 1..Len(books) :
              books[i].quote # <<>> /\ books[i] # Placeholder

\* C9: an item of a 200 response is in the result if and only if its
\* viewability is PARTIAL, ALL_PAGES, FULL or SAMPLE and its snippet, with the
\* ellipses removed and trimmed, is not empty: the records returned are the
\* records of the qualifying items, each as many times as it qualifies.
C9_KeptIffQualifies ==
  (result.called /\ ~result.out.raised /\ response.status_code = 200) =>
    LET books == result.out.books
        items == ItemsSeen
        kept == {i \in 1..Len(items) : Qualifies(items[i])}
    IN IF kept = {} THEN books = <<Placeholder>>
       ELSE /\ Len(books) = Cardinality(kept)
            /\ \A i \in 1..Len(items) :
                 Times(Book(items[i]), books)
                   = Cardinality({j \in kept : Book(items[j]) = Book(items[i])})

\* An item of every viewability class is decided the way the claim says.
C9_Witness ==
  /\ result.called
  /\ ~result.out.raised
  /\ Len(response.items) = 3
  /\ response.items[1].viewability = "NONE" /\ Trimmed(response.items[1]) # <<>>
  /\ response.items[2].viewability = "FULL" /\ Trimmed(response.items[2]) = <<>>
  /\ response.items[3].viewability = "SAMPLE" /\ Trimmed(response.items[3]) # <<>>
  /\ Len(result.out.books) = 1

\* The key the ranking compares: the title lowercased, a null title as "".
TitleKey(b) == Lower(IF b.title = None THEN <<>> ELSE b.title)

Ranked(books) ==
  /\ \A i, j \in 1..Len(books) :
       i < j => ~StrLess(TitleKey(books[j]), TitleKey(books[i]))
  /\ \A i, j \in 1..Len(books) :
       (i < j /\ books[j].title = None) => books[i].title \in {None, <<>>}

\* The specification's instance: 'Zebra', 'apple' and a null title, all kept.
ZebraAppleNull ==
  WithItems(200, <<Volume("FULL", <<97>>, Zebra),
                   Volume("FULL", <<46, 46, 46, 97, 46, 46, 46>>, apple),
                   Volume("FULL", <<97>>, None)>>)

\* C8 as amended: the records come back ascending by lowercased title, a null
\* title compared as "" and so before every record with a non-empty title;
\* 'Zebra', 'apple', null come back as null, 'apple', 'Zebra'.
C8_RankedNullFirst ==
  (result.called /\ ~result.out.raised) =>
    /\ Ranked(result.out.books)
    /\ response = ZebraAppleNull
         => TitlesOf(result.out.books) = <<None, apple, Zebra>>

C8_Witness ==
  /\ result.called
  /\ response = ZebraAppleNull
  /\ TitlesOf(result.out.books) = <<None, apple, Zebra>>

\* C8 as claimed: ranked as above, and 'Zebra', 'apple', null come back in the
\* order the specification lists: 'apple', 'Zebra', null.
C8_SpecOrder ==
  (result.called /\ ~result.out.raised) =>
    /\ Ranked(result.out.books)
    /\ response = ZebraAppleNull
         => TitlesOf(result.out.books) = <<apple, Zebra, None>>

(***************************************************************************)
(* Properties of check_rate_limit and chat().                              *)
(***************************************************************************)
Decided(p) == req[p].pc \in {"validate", "complete", "search", "done"}

\* With one request at a time, the request being handled is the latest of its
\* key: its place among the requests of its identity and day.
Ordinal(p) == nreq[<<req[p].ip, req[p].today>>]

\* C1: one request at a time, from no record: of the requests of one identity
\* handled within one calendar day the first DAILY_LIMIT are admitted, and the
\* next and every later one is rejected and answered 429.
C1_FirstTenAdmitted ==
  \A p \in Workers :
    (Decided(p) /\ Day(now) = req[p].today) =>
      /\ req[p].admitted <=> Ordinal(p) <= 10
      /\ ~req[p].admitted => (req[p].pc = "done" /\ req[p].status = 429)

C1_Witness ==
  \E p \in Workers :
    /\ req[p].pc = "done"
    /\ req[p].status = 429
    /\ Ordinal(p) = 11
    /\ Day(now) = req[p].today
    /\ nadmit[<<req[p].ip, req[p].today>>] = 10

\* C2: no record ever holds a count above DAILY_LIMIT, whatever the
\* interleaving of the get, set and incr steps.
C2_CountWithinLimit ==
  \A k \in Keys : store[k].exists => store[k].count <= 10

\* C3: check_rate_limit is not atomic: a request is admitted on the count it
\* read, whatever the record holds by the time it writes; two requests that
\* read the same count are both admitted.
C3_AdmittedOnStaleRead ==
  \A p \in Workers :
    Decided(p) =>
      (req[p].admitted <=> (req[p].count.isNone \/ req[p].count.value < 10))

\* Two requests of one identity read 9 on the same day, both are admitted,
\* and the day has more than DAILY_LIMIT admissions.
C3_Witness ==
  \E p, q \in Workers :
    /\ p # q
    /\ Decided(p) /\ Decided(q)
    /\ req[p].ip = req[q].ip /\ req[p].today = req[q].today
    /\ req[p].count = SomeCount(9) /\ req[q].count = SomeCount(9)
    /\ req[p].admitted /\ req[q].admitted
    /\ nadmit[<<req[p].ip, req[p].today>>] > 10
    /\ store[<<req[p].ip, req[p].today>>].count > 10

\* A message that is absent, null or only whitespace.
Blank(m) == m \in {Missing, None} \/ \A i \in 1..Len(m) : m[i] = 32

\* The order of chat() as a request's record shows it.
C4_Order ==
  \A p \in Workers :
    /\ req[p].status = 429 => ~req[p].admitted /\ ~req[p].completion /\ ~req[p].catalog
    /\ req[p].status = 400 =>
         /\ req[p].admitted /\ Blank(req[p].message)
         /\ ~req[p].completion /\ ~req[p].catalog
    /\ req[p].pc \in {"validate", "complete", "search"} => req[p].admitted
    /\ req[p].pc \in {"complete", "search"} => ~Blank(req[p].message)
    /\ req[p].completion => req[p].admitted /\ ~Blank(req[p].message)
    /\ req[p].catalog => req[p].completion
    /\ (req[p].pc = "done" /\ req[p].admitted /\ Blank(req[p].message))
         => req[p].status = 400
    /\ (req[p].pc = "done" /\ ~req[p].admitted) => req[p].status = 429

\* The step that admits a request writes the counter before the message is
\* looked at: the record is set to 1 when the request read none, and is
\* otherwise one more than it was (1 if it is gone by then).
C4_QuotaConsumed ==
  \A p \in Workers :
    (req[p].pc = "check" /\ req'[p].pc = "validate") =>
      LET k == <<req[p].ip, req[p].today>> IN
      /\ nadmit'[k] = nadmit[k] + 1
      /\ store'[k].exists
      /\ store'[k].count =
           IF req[p].count.isNone \/ ~store[k].exists THEN 1
           ELSE store[k].count + 1

\* C4: every request passes the quota gate, then the validation, then the
\* completion call, then the catalog call, and stops at the first that fails:
\* a blank message with quota left is counted and answered 400, a blank
\* message with the quota used up is answered 429, and a request answered
\* 429 or 400 makes no completion and no catalog call.
C4_GateThenValidate == [](C4_Order) /\ [][C4_QuotaConsumed]_vars

\* A blank message answered 400 after being counted, and a blank message
\* answered 429.
C4_Witness ==
  \E p, q \in Workers :
    /\ req[p].status = 400 /\ req[p].admitted /\ Blank(req[p].message)
    /\ store[<<req[p].ip, req[p].today>>].count = 10
    /\ req[q].status = 429 /\ Blank(req[q].message)

C6_Frame ==
  [][\A p \in Workers :
       /\ (req[p].pc = "check" /\ req'[p].status = 429) => store' = store
       /\ req'[p] # req[p] =>
            \A k \in Keys :
              store'[k] # store[k] => k = <<req[p].ip, req[p].today>>]_vars

\* A request is rejected while another identity has a record.
C6_Witness ==
  \E p \in Workers :
    /\ req[p].status = 429
    /\ \E k \in Keys : k[1] # req[p].ip /\ store[k].exists

\* C10: every record that exists carries an expiry.
C10_RecordHasExpiry ==
  \A k \in Keys : store[k].exists => store[k].hasTTL
====
